---- MODULE Spec2Model ----
(***************************************************************************)
(* Model of weixin-devtools-mcp: the element-uid / page-snapshot resolver  *)
(* (src/server.ts, src/tools.ts, src/tools/snapshot.ts, src/tools/page.ts) *)
(* and the console event store (tools/console.ts, tools/connection.ts,     *)
(* utils/idGenerator.ts).                                                  *)
(*                                                                         *)
(* Strings that the program builds and later takes apart again (uids,      *)
(* selectors) are sequences of tokens, so that building one and parsing it *)
(* are two different computations.  A class attribute is the sequence of   *)
(* its space-separated class names (className.split(' ')).                 *)
(***************************************************************************)
EXTENDS Naturals, Integers, Sequences, FiniteSets, TLC

VARIABLES
    miniProgram,     \* context.miniProgram: NULL or the automator handle
    currentPage,     \* context.currentPage: NULL or the Page object (by path)
    elementMap,      \* context.elementMap: uid -> [selector, index]
    consoleStorage,  \* context.consoleStorage
    idGenerator,     \* the closure state of consoleStorage.idGenerator
    listeners,       \* handlers registered on the miniProgram event emitter
    alive,           \* environment: the automation connection still answers
    appPage,         \* environment: the page the mini program shows
    dom,             \* environment: page -> its elements in document order
    now,             \* environment: the clock read by new Date()
    navTimes,        \* environment: clock values at which the app navigated
    refs,            \* number of record objects allocated so far
    result           \* the outcome of the latest tool call

vars == <<miniProgram, currentPage, elementMap, consoleStorage, idGenerator,
          listeners, alive, appPage, dom, now, navTimes, refs, result>>

NULL == "null"

(***************************************************************************)
(* Bounds of the model.                                                    *)
(***************************************************************************)
MaxShown == 2          \* largest maxElements argument tried
MaxFailedReads == 1    \* attribute reads that may fail during one call
MaxListeners == 2      \* listener pairs registered on one miniProgram handle
MaxRecords == 4        \* console/exception records created in one run
MaxTime == 1           \* largest clock value
MaxNavs == 3           \* navigations whose time is remembered
MAX_SAFE_INTEGER == 3  \* Number.MAX_SAFE_INTEGER, scaled down

(***************************************************************************)
(* The environment: pages, elements and the query engine of the automation *)
(* SDK (page.$$).                                                          *)
(***************************************************************************)
Pages == {"index", "detail"}
HomePage == "index"

\* tagName, id attribute ("" when absent) and class names of each element
Elem ==
    [ submit  |-> [tagName |-> "button", id |-> "submit", class |-> <<>>,
                   text |-> "Submit"],
      cancel  |-> [tagName |-> "button", id |-> "", class |-> <<"cancel">>,
                   text |-> "Cancel"],
      plain   |-> [tagName |-> "view", id |-> "", class |-> <<>>,
                   text |-> ""],
      itemA   |-> [tagName |-> "view", id |-> "", class |-> <<"item", "big">>,
                   text |-> "A"],
      itemB   |-> [tagName |-> "view", id |-> "", class |-> <<"item">>,
                   text |-> "B"],
      comp    |-> [tagName |-> "my-comp", id |-> "", class |-> <<>>,
                   text |-> ""] ]

\* the element trees a page may show (document order)
Trees ==
    { <<"submit", "cancel", "plain">>,
      <<"itemA", "itemB">>,
      <<"itemB", "plain">>,
      <<"itemB">>,
      <<"comp">> }

Range(s) == {s[k] : k \in 1..Len(s)}

WILDCARD == <<"*">>
HIERARCHICAL == <<"page", ">", "*">>

IsSep(t) == t \in {"#", "."}

\* the type selector of a compound selector ("" when it has none)
SelTag(sel) == IF sel # <<>> /\ ~IsSep(sel[1]) THEN sel[1] ELSE ""
SelRest(sel) == IF SelTag(sel) # "" THEN Tail(sel) ELSE sel
SelValid(sel) ==
    LET r == SelRest(sel) IN
    /\ sel # <<>>
    /\ Len(r) % 2 = 0
    /\ \A k \in 1..Len(r) : IF k % 2 = 1 THEN IsSep(r[k]) ELSE ~IsSep(r[k])
SelIds(sel) ==
    LET r == SelRest(sel) IN {r[k + 1] : k \in {j \in 1..Len(r) : r[j] = "#"}}
SelClasses(sel) ==
    LET r == SelRest(sel) IN {r[k + 1] : k \in {j \in 1..Len(r) : r[j] = "."}}

\* does element n match the selector
Matches(n, sel) ==
    IF sel = WILDCARD \/ sel = HIERARCHICAL THEN TRUE
    ELSE /\ SelTag(sel) \in {"", "*", Elem[n].tagName}
         /\ SelValid(sel)
         /\ \A x \in SelIds(sel) : Elem[n].id = x
         /\ \A c \in SelClasses(sel) : c \in Range(Elem[n].class)

\* page.$$(selector): the matching elements of the page, in document order
QueryAll(tree, page, sel) ==
    LET hit(n) == Matches(n, sel)
        nodes == SelectSeq(tree, hit)
    IN [k \in 1..Len(nodes) |-> [page |-> page, node |-> nodes[k]]]

\* element.attribute(name) with the reads in `failed` rejected (-> '')
ReadId(el, i, failed) ==
    IF <<i, "id">> \in failed THEN "" ELSE Elem[el.node].id
ReadClass(el, i, failed) ==
    IF <<i, "class">> \in failed THEN <<>> ELSE Elem[el.node].class

\* element.text() (-> '' when rejected or empty: the field is left out)
ReadText(el, i, failed) ==
    IF <<i, "text">> \in failed THEN "" ELSE Elem[el.node].text
\* element.size() and element.offset(): position is set when both answer
ReadPosition(el, i, failed) ==
    <<i, "size">> \notin failed /\ <<i, "offset">> \notin failed

\* the per-field reads of one element
FieldReads == {"text", "class", "id", "size", "offset"}
\* the sets of at most n reads out of `reads`
RECURSIVE SetsUpTo(_, _)
SetsUpTo(reads, n) ==
    IF n = 0 THEN {{}}
    ELSE LET smaller == SetsUpTo(reads, n - 1)
         IN smaller \cup {S \cup {x} : S \in smaller, x \in reads}

FailChoices(len) == SetsUpTo((1..len) \X FieldReads, MaxFailedReads)

(***************************************************************************)
(* JavaScript Map helpers.                                                 *)
(***************************************************************************)
EmptyMap == <<>>
MapHas(m, k) == k \in DOMAIN m
MapSet(m, k, v) == [x \in (DOMAIN m) \cup {k} |-> IF x = k THEN v ELSE m[x]]
MapDelete(m, k) == [x \in (DOMAIN m) \ {k} |-> m[x]]

(***************************************************************************)
(* tools.ts: uid generation and getPageSnapshot.                           *)
(***************************************************************************)
\* the uid of element number i (0-based) of a result list
generateElementUidZeroBased(tagName, id, className, i) ==
    IF id # "" THEN <<tagName, "#", id>>
    ELSE IF className # <<>> THEN <<tagName, ".", className[1]>>
    ELSE <<tagName, ":nth-child(", ToString(i), ")">>

generateElementUid(tagName, id, className, i) ==
    IF id # "" THEN <<tagName, "#", id>>
    ELSE IF className # <<>> THEN <<tagName, ".", className[1]>>
    ELSE <<tagName, ":nth-child(", ToString(i + 1), ")">>

\* the selector stored for later re-query
baseSelectorOf(tagName, id, className) ==
    IF id # "" THEN <<tagName, "#", id>>
    ELSE IF className # <<>> THEN <<tagName, ".", className[1]>>
    ELSE <<tagName>>

commonSelectors ==
    << "view", "text", "button", "image", "input", "textarea", "picker",
       "switch", "slider", "scroll-view", "swiper", "icon", "rich-text",
       "progress", "navigator", "form", "checkbox", "radio", "cover-view",
       "cover-image" >>

RECURSIVE ConcatQueries(_, _, _)
ConcatQueries(tree, page, k) ==
    IF k > Len(commonSelectors) THEN <<>>
    ELSE QueryAll(tree, page, <<commonSelectors[k]>>)
             \o ConcatQueries(tree, page, k + 1)

\* the strategy cascade: wildcard, common component tags, children of page
\* (wc, hc: whether the engine answers the wildcard / hierarchical query)
childElementsOf(tree, page, wc, hc) ==
    LET s1 == IF wc THEN QueryAll(tree, page, WILDCARD) ELSE <<>>
        s2 == IF s1 # <<>> THEN s1 ELSE ConcatQueries(tree, page, 1)
        s3 == IF s2 # <<>> THEN s2
              ELSE IF hc THEN QueryAll(tree, page, HIERARCHICAL) ELSE <<>>
    IN s3

\* an occurrence counter that starts at 1
currentIndexOfOneBased(selectorIndexMap, baseSelector) ==
    IF MapHas(selectorIndexMap, baseSelector)
    THEN selectorIndexMap[baseSelector] + 1
    ELSE 1

\* the index stored with element i
currentIndexOf(selectorIndexMap, baseSelector) ==
    IF MapHas(selectorIndexMap, baseSelector) THEN selectorIndexMap[baseSelector]
    ELSE 0

\* a loop that gives up an element when one of its reads is rejected
RECURSIVE snapshotLoopDropOnFailure(_, _, _, _)
snapshotLoopDropOnFailure(childElements, failed, i, acc) ==
    IF i > Len(childElements) THEN acc
    ELSE IF \E f \in FieldReads : <<i, f>> \in failed
    THEN snapshotLoopDropOnFailure(childElements, failed, i + 1, acc)
    ELSE
      LET element == childElements[i]
          tagName == Elem[element.node].tagName
          className == ReadClass(element, i, failed)
          id == ReadId(element, i, failed)
          uid == generateElementUid(tagName, id, className, i - 1)
          baseSelector == baseSelectorOf(tagName, id, className)
          currentIndex == currentIndexOf(acc.selectorIndexMap, baseSelector)
      IN snapshotLoopDropOnFailure(childElements, failed, i + 1,
           [ elements |-> Append(acc.elements,
                 [uid |-> uid, tagName |-> tagName, element |-> element,
                  text |-> ReadText(element, i, failed),
                  position |-> ReadPosition(element, i, failed)]),
             selectorIndexMap |->
                 MapSet(acc.selectorIndexMap, baseSelector, currentIndex + 1),
             elementMap |->
                 MapSet(acc.elementMap, uid,
                        [selector |-> baseSelector, index |-> currentIndex]) ])

\* one pass of the loop over childElements, from element i on
RECURSIVE snapshotLoop(_, _, _, _)
snapshotLoop(childElements, failed, i, acc) ==
    IF i > Len(childElements) THEN acc
    ELSE
      LET element == childElements[i]
          tagName == Elem[element.node].tagName
          className == ReadClass(element, i, failed)
          id == ReadId(element, i, failed)
          uid == generateElementUid(tagName, id, className, i - 1)
          baseSelector == baseSelectorOf(tagName, id, className)
          currentIndex == currentIndexOf(acc.selectorIndexMap, baseSelector)
      IN snapshotLoop(childElements, failed, i + 1,
           [ elements |-> Append(acc.elements,
                 [uid |-> uid, tagName |-> tagName, element |-> element,
                  text |-> ReadText(element, i, failed),
                  position |-> ReadPosition(element, i, failed)]),
             selectorIndexMap |->
                 MapSet(acc.selectorIndexMap, baseSelector, currentIndex + 1),
             elementMap |->
                 MapSet(acc.elementMap, uid,
                        [selector |-> baseSelector, index |-> currentIndex]) ])

getPageSnapshot(tree, page, wc, hc, failed) ==
    LET childElements == childElementsOf(tree, page, wc, hc)
        out == snapshotLoop(childElements, failed, 1,
                 [elements |-> <<>>, selectorIndexMap |-> EmptyMap,
                  elementMap |-> EmptyMap])
    IN [elements |-> out.elements, elementMap |-> out.elementMap,
        childElements |-> childElements]

(***************************************************************************)
(* tools.ts: queryElements (the $ tool).                                   *)
(***************************************************************************)
uidCountOf(uidCounter, baseUid) ==
    IF MapHas(uidCounter, baseUid) THEN uidCounter[baseUid] ELSE 0

suffixedUidFromOne(baseUid, count) ==
    IF count = 0 THEN baseUid ELSE baseUid \o <<"[", ToString(count), "]">>

\* first element keeps the base uid, later ones get the [N] suffix
suffixedUid(baseUid, count) ==
    IF count = 0 THEN baseUid ELSE baseUid \o <<"[", ToString(count + 1), "]">>

RECURSIVE queryLoop(_, _, _, _, _)
queryLoop(elements, selector, failed, i, acc) ==
    IF i > Len(elements) THEN acc
    ELSE
      LET element == elements[i]
          baseUid == generateElementUid(Elem[element.node].tagName,
                         ReadId(element, i, failed),
                         ReadClass(element, i, failed), i - 1)
          count == uidCountOf(acc.uidCounter, baseUid)
          uid == suffixedUid(baseUid, count)
      IN queryLoop(elements, selector, failed, i + 1,
           [ results |-> Append(acc.results,
                 [uid |-> uid, tagName |-> Elem[element.node].tagName,
                  element |-> element,
                  text |-> ReadText(element, i, failed),
                  position |-> ReadPosition(element, i, failed)]),
             uidCounter |-> MapSet(acc.uidCounter, baseUid, count + 1),
             elementMap |->
                 MapSet(acc.elementMap, uid,
                        [selector |-> selector, index |-> i - 1]) ])

\* returns the results and the element map after the in-place updates
queryElements(tree, page, emap, selector, failed) ==
    LET out == queryLoop(QueryAll(tree, page, selector), selector, failed, 1,
                 [results |-> <<>>, uidCounter |-> EmptyMap, elementMap |-> emap])
    IN [results |-> out.results, elementMap |-> out.elementMap]

(***************************************************************************)
(* server.ts: getElementByUid.                                             *)
(***************************************************************************)
NoElement == [page |-> NULL, node |-> NULL]
Failure(kind) == [kind |-> kind, element |-> NoElement]

\* a resolver that checks the index before the empty result
getElementByUidIndexFirst(cp, emap, d, up, uid) ==
    IF cp = NULL THEN Failure("NotConnected")
    ELSE IF ~MapHas(emap, uid) THEN Failure("UnknownUid")
    ELSE IF ~up THEN Failure("SdkError")
    ELSE
      LET mapInfo == emap[uid]
          elements == QueryAll(d[cp], cp, mapInfo.selector)
      IN IF mapInfo.index >= Len(elements) THEN Failure("IndexOutOfRange")
         ELSE IF Len(elements) = 0 THEN Failure("StaleSelector")
         ELSE [kind |-> "Element", element |-> elements[mapInfo.index + 1]]

\* cp: context.currentPage, emap: context.elementMap, d: the live pages,
\* up: whether the automation connection answers
getElementByUid(cp, emap, d, up, uid) ==
    IF cp = NULL THEN Failure("NotConnected")
    ELSE IF ~MapHas(emap, uid) THEN Failure("UnknownUid")
    ELSE IF ~up THEN Failure("SdkError")
    ELSE
      LET mapInfo == emap[uid]
          elements == QueryAll(d[cp], cp, mapInfo.selector)
      IN IF Len(elements) = 0 THEN Failure("StaleSelector")
         ELSE IF mapInfo.index >= Len(elements) THEN Failure("IndexOutOfRange")
         ELSE [kind |-> "Element", element |-> elements[mapInfo.index + 1]]

(***************************************************************************)
(* utils/idGenerator.ts and the console store (tools/console.ts,           *)
(* tools/connection.ts).                                                   *)
(***************************************************************************)
maxNavigations == 3

NoGenerator == [present |-> FALSE, i |-> 0]
createIdGenerator == [present |-> TRUE, i |-> 1]

\* one call of the generator: the value returned and the closure afterwards
idReturned(gen) == IF gen.i = MAX_SAFE_INTEGER THEN 0 ELSE gen.i
idAfterStuck(gen) == gen    \* a generator that returns i without i++
idAfter(gen) == [gen EXCEPT !.i = idReturned(gen) + 1]

FreshSession == [messages |-> <<>>, exceptions |-> <<>>]
InitialConsoleStorage ==
    [ navigations |-> <<FreshSession>>,
      messageIdMap |-> EmptyMap,
      isMonitoring |-> FALSE ]

ConsoleTypes == {"log", "error"}

\* a record object: ref is the identity of the JavaScript object
NewRecord(ref, hasId, msgid, kind, type, t) ==
    [ ref |-> ref, hasId |-> hasId, msgid |-> msgid, kind |-> kind,
      type |-> type, timestamp |-> t ]

pushRecord(storage, kind, rec) ==
    IF kind = "console"
    THEN [storage EXCEPT !.navigations[1].messages = Append(@, rec)]
    ELSE [storage EXCEPT !.navigations[1].exceptions = Append(@, rec)]

\* the listeners registered by start_console_monitoring (console.ts)
\* st = [storage, gen, refs]
startListenerSingleEntry(st, kind, type, t) ==
    LET msgid == idReturned(st.gen)
        rec == NewRecord(st.refs + 1, TRUE, msgid, kind, type, t)
        pushed == pushRecord(st.storage, kind, rec)
    IN [ storage |-> [pushed EXCEPT !.messageIdMap = MapSet(EmptyMap, msgid, rec)],
         gen |-> idAfter(st.gen),
         refs |-> st.refs + 1 ]

startListener(st, kind, type, t) ==
    LET msgid == idReturned(st.gen)
        rec == NewRecord(st.refs + 1, TRUE, msgid, kind, type, t)
        pushed == pushRecord(st.storage, kind, rec)
    IN [ storage |-> [pushed EXCEPT !.messageIdMap = MapSet(@, msgid, rec)],
         gen |-> idAfter(st.gen),
         refs |-> st.refs + 1 ]

\* the listeners registered by connect_devtools (connection.ts)
connectListener(st, kind, type, t) ==
    IF st.gen.present
    THEN LET msgid == idReturned(st.gen)
             rec == NewRecord(st.refs + 1, TRUE, msgid, kind, type, t)
             mapped == [st.storage EXCEPT !.messageIdMap = MapSet(@, msgid, rec)]
         IN [ storage |-> pushRecord(mapped, kind, rec),
              gen |-> idAfter(st.gen),
              refs |-> st.refs + 1 ]
    ELSE LET rec == NewRecord(st.refs + 1, FALSE, 0, kind, type, t)
         IN [ storage |-> pushRecord(st.storage, kind, rec),
              gen |-> st.gen,
              refs |-> st.refs + 1 ]

\* the event emitter calls the registered listeners in registration order
RECURSIVE emit(_, _, _, _, _, _)
emit(ls, k, st, kind, type, t) ==
    IF k > Len(ls) THEN st
    ELSE emit(ls, k + 1,
              IF ls[k] = "start" THEN startListener(st, kind, type, t)
              ELSE connectListener(st, kind, type, t),
              kind, type, t)

\* clear_console: drop the records of session 0 and their map entries
RECURSIVE deleteIds(_, _, _)
deleteIds(map, recs, k) ==
    IF k > Len(recs) THEN map
    ELSE deleteIds(IF recs[k].hasId THEN MapDelete(map, recs[k].msgid) ELSE map,
                   recs, k + 1)

\* a clear that forgets the msgid map
clearMessagesKeepIds(storage) ==
    [storage EXCEPT !.navigations[1].messages = <<>>]

clearMessages(storage) ==
    [storage EXCEPT
        !.messageIdMap = deleteIds(@, storage.navigations[1].messages, 1),
        !.navigations[1].messages = <<>>]

clearExceptions(storage) ==
    [storage EXCEPT
        !.messageIdMap = deleteIds(@, storage.navigations[1].exceptions, 1),
        !.navigations[1].exceptions = <<>>]

\* a clear that empties both lists whatever the type asked for
clearConsoleIgnoreType(storage, type) ==
    clearExceptions(clearMessages(storage))

clearConsole(storage, type) ==
    LET a == IF type \in {"all", "console"} THEN clearMessages(storage)
             ELSE storage
    IN IF type \in {"all", "exception"} THEN clearExceptions(a) ELSE a

\* a restart that starts a new session in front of the old ones
clearExistingLogsUnshift(storage) ==
    [storage EXCEPT !.navigations = <<FreshSession>> \o @,
                    !.messageIdMap = EmptyMap]

\* start_console_monitoring with clearExisting
clearExistingLogs(storage) ==
    [storage EXCEPT !.navigations = <<FreshSession>>, !.messageIdMap = EmptyMap]

\* initializeConsoleStorage: rebuilds the store only when it has no sessions
\* st = [storage, gen]
initializeConsoleStorageAlways(st) ==
    [storage |-> InitialConsoleStorage, gen |-> createIdGenerator]

initializeConsoleStorage(st) ==
    IF "navigations" \notin DOMAIN st.storage
    THEN [storage |-> InitialConsoleStorage, gen |-> createIdGenerator]
    ELSE st

\* the texts of the errors the console tools throw
StorageNotInitializedError == <<"Console storage not initialized">>
MessageNotFoundError(msgid) ==
    << "Message with msgid=", ToString(msgid), " not found. Please use ",
       "list_console_messages", " to view available messages." >>

getConsoleMessageStorageError(storage, msgid) ==
    IF MapHas(storage.messageIdMap, msgid)
    THEN [kind |-> "Found", ref |-> storage.messageIdMap[msgid].ref,
          error |-> <<>>]
    ELSE [kind |-> "StorageNotInitialized", ref |-> 0,
          error |-> StorageNotInitializedError]

\* get_console_message
getConsoleMessage(storage, msgid) ==
    IF MapHas(storage.messageIdMap, msgid)
    THEN [kind |-> "Found", ref |-> storage.messageIdMap[msgid].ref,
          error |-> <<>>]
    ELSE [kind |-> "MessageNotFound", ref |-> 0,
          error |-> MessageNotFoundError(msgid)]

(***************************************************************************)
(* console.ts: list_console_messages; consoleFormatter.ts:                 *)
(* formatPaginationInfo.                                                   *)
(***************************************************************************)
\* the list entry of a stored console message / exception
messageDataOf(msg) ==
    [msgid |-> msg.msgid, type |-> msg.type, timestamp |-> msg.timestamp,
     ref |-> msg.ref]
exceptionDataOf(exc) ==
    [msgid |-> exc.msgid, type |-> "exception", timestamp |-> exc.timestamp,
     ref |-> exc.ref]

RECURSIVE mapMessages(_, _)
mapMessages(recs, k) ==
    IF k > Len(recs) THEN <<>>
    ELSE (IF recs[k].hasId THEN <<messageDataOf(recs[k])>> ELSE <<>>)
             \o mapMessages(recs, k + 1)

RECURSIVE mapExceptions(_, _)
mapExceptions(recs, k) ==
    IF k > Len(recs) THEN <<>>
    ELSE (IF recs[k].hasId THEN <<exceptionDataOf(recs[k])>> ELSE <<>>)
             \o mapExceptions(recs, k + 1)

navigationsToInclude(storage, includePreservedMessages) ==
    IF includePreservedMessages
    THEN SubSeq(storage.navigations, 1,
                IF Len(storage.navigations) < maxNavigations
                THEN Len(storage.navigations) ELSE maxNavigations)
    ELSE <<storage.navigations[1]>>

\* messages, then exceptions, of each included session
RECURSIVE collectMessages(_, _)
collectMessages(navs, n) ==
    IF n > Len(navs) THEN <<>>
    ELSE mapMessages(navs[n].messages, 1) \o mapExceptions(navs[n].exceptions, 1)
             \o collectMessages(navs, n + 1)

\* filter = [given, types]: the optional types argument
filterByTypes(allMessages, filter) ==
    IF filter.given /\ filter.types # {}
    THEN LET keep(m) == m.type \in filter.types IN SelectSeq(allMessages, keep)
    ELSE allMessages

compareByTimeOldestFirst(a, b) == a.timestamp - b.timestamp

\* the sort comparator: timeB - timeA
compareByTime(a, b) == b.timestamp - a.timestamp

\* Array.prototype.sort (stable): x goes before the first element that the
\* comparator orders after it
insertSorted(sorted, x) ==
    LET later == {k \in 1..Len(sorted) : compareByTime(sorted[k], x) > 0}
        at == IF later = {} THEN Len(sorted) + 1
              ELSE CHOOSE k \in later : \A j \in later : k <= j
    IN SubSeq(sorted, 1, at - 1) \o <<x>> \o SubSeq(sorted, at, Len(sorted))

RECURSIVE sortMessages(_, _, _)
sortMessages(allMessages, k, sorted) ==
    IF k > Len(allMessages) THEN sorted
    ELSE sortMessages(allMessages, k + 1, insertSorted(sorted, allMessages[k]))

sliceOneMore(seq, start, end) ==
    IF start >= end \/ start >= Len(seq) THEN <<>>
    ELSE SubSeq(seq, start + 1, IF end + 1 < Len(seq) THEN end + 1 ELSE Len(seq))

\* Array.prototype.slice(start, end)
slice(seq, start, end) ==
    IF start >= end \/ start >= Len(seq) THEN <<>>
    ELSE SubSeq(seq, start + 1, IF end < Len(seq) THEN end ELSE Len(seq))

formatPaginationInfoNextOnLastPage(total, pageSize, pageIdx) ==
    LET start == pageIdx * pageSize
        end == IF start + pageSize < total THEN start + pageSize ELSE total
        hasNextPage == end <= total
        hasPreviousPage == pageIdx > 0
    IN [ total |-> total,
         showing |-> <<start + 1, end>>,
         nextPage |-> IF hasNextPage THEN <<pageIdx + 1>> ELSE <<>>,
         previousPage |-> IF hasPreviousPage THEN <<pageIdx - 1>> ELSE <<>> ]

formatPaginationInfo(total, pageSize, pageIdx) ==
    LET start == pageIdx * pageSize
        end == IF start + pageSize < total THEN start + pageSize ELSE total
        hasNextPage == end < total
        hasPreviousPage == pageIdx > 0
    IN [ total |-> total,
         showing |-> <<start + 1, end>>,
         nextPage |-> IF hasNextPage THEN <<pageIdx + 1>> ELSE <<>>,
         previousPage |-> IF hasPreviousPage THEN <<pageIdx - 1>> ELSE <<>> ]

\* the filtered, sorted messages the handler pages through
listedMessages(storage, filter, includePreservedMessages) ==
    sortMessages(
        filterByTypes(
            collectMessages(
                navigationsToInclude(storage, includePreservedMessages), 1),
            filter),
        1, <<>>)

listConsoleMessages(storage, pageSize, pageIdx, filter, includePreservedMessages) ==
    LET allMessages == listedMessages(storage, filter, includePreservedMessages)
        total == Len(allMessages)
        start == pageIdx * pageSize
        end == IF start + pageSize < total THEN start + pageSize ELSE total
    IN [ pagedMessages |-> slice(allMessages, start, end),
         paginationInfo |-> formatPaginationInfo(total, pageSize, pageIdx) ]

(***************************************************************************)
(* The state after construction (server.ts, globalContext).                *)
(***************************************************************************)
Init ==
    /\ miniProgram = NULL
    /\ currentPage = NULL
    /\ elementMap = EmptyMap
    /\ consoleStorage = InitialConsoleStorage
    /\ idGenerator = NoGenerator
    /\ listeners = <<>>
    /\ alive = FALSE
    /\ appPage = HomePage
    /\ dom = [p \in Pages |->
                IF p = HomePage THEN <<"submit", "cancel", "plain">> ELSE <<"itemB">>]
    /\ now = 0
    /\ navTimes = <<>>
    /\ refs = 0
    /\ result = [op |-> "none"]

uidVars == <<currentPage, elementMap>>
consoleVars == <<consoleStorage, idGenerator, listeners, refs>>
envVars == <<alive, appPage, dom, now, navTimes>>

(***************************************************************************)
(* connection.ts: connect_devtools / connect_devtools_enhanced and         *)
(* get_current_page.                                                       *)
(***************************************************************************)
ConnectTools == {"connect_devtools", "connect_devtools_enhanced"}

\* ok: whether connectDevtools() succeeds (the app then shows its home page)
\* connect_devtools without the elementMap.clear() of connection.ts:242, 542
ConnectDevtoolsKeepMap(tool, ok) ==
    IF miniProgram # NULL /\ alive
    THEN /\ result' = [op |-> tool, outcome |-> "reused"]
         /\ UNCHANGED <<miniProgram, uidVars, consoleVars, envVars>>
    ELSE IF ok
    THEN /\ miniProgram' = "mp"
         /\ currentPage' = HomePage
         /\ listeners' = <<"connect">>
         /\ consoleStorage' = [consoleStorage EXCEPT !.isMonitoring = TRUE]
         /\ alive' = TRUE
         /\ appPage' = HomePage
         /\ result' = [op |-> tool, outcome |-> "connected"]
         /\ UNCHANGED <<elementMap, idGenerator, refs, dom, now, navTimes>>
    ELSE /\ miniProgram' = NULL
         /\ currentPage' = NULL
         /\ listeners' = <<>>
         /\ result' = [op |-> tool, outcome |-> "failed"]
         /\ UNCHANGED <<elementMap, consoleStorage, idGenerator, refs, envVars>>

ConnectDevtools(tool, ok) ==
    IF miniProgram # NULL /\ alive
    THEN /\ result' = [op |-> tool, outcome |-> "reused"]
         /\ UNCHANGED <<miniProgram, uidVars, consoleVars, envVars>>
    ELSE IF ok
    THEN /\ miniProgram' = "mp"
         /\ currentPage' = HomePage
         /\ elementMap' = EmptyMap
         /\ listeners' = <<"connect">>
         /\ consoleStorage' = [consoleStorage EXCEPT !.isMonitoring = TRUE]
         /\ alive' = TRUE
         /\ appPage' = HomePage
         /\ result' = [op |-> tool, outcome |-> "connected"]
         /\ UNCHANGED <<idGenerator, refs, dom, now, navTimes>>
    ELSE /\ miniProgram' = NULL
         /\ currentPage' = NULL
         /\ listeners' = <<>>
         /\ result' = [op |-> tool, outcome |-> "failed"]
         /\ UNCHANGED <<elementMap, consoleStorage, idGenerator, refs, envVars>>

GetCurrentPage ==
    IF miniProgram = NULL \/ ~alive
    THEN /\ result' = [op |-> "get_current_page", ok |-> FALSE]
         /\ UNCHANGED <<miniProgram, uidVars, consoleVars, envVars>>
    ELSE /\ currentPage' = appPage
         /\ result' = [op |-> "get_current_page", ok |-> TRUE]
         /\ UNCHANGED <<miniProgram, elementMap, consoleVars, envVars>>

(***************************************************************************)
(* navigate.ts: navigate_to.                                               *)
(***************************************************************************)
Remember(times, t) == IF Len(times) < MaxNavs THEN Append(times, t) ELSE times

NavigateTo(url) ==
    IF miniProgram = NULL \/ ~alive
    THEN /\ result' = [op |-> "navigate_to", ok |-> FALSE]
         /\ UNCHANGED <<miniProgram, uidVars, consoleVars, envVars>>
    ELSE /\ appPage' = url
         /\ navTimes' = Remember(navTimes, now)
         /\ currentPage' = url
         /\ result' = [op |-> "navigate_to", ok |-> TRUE]
         /\ UNCHANGED <<miniProgram, elementMap, consoleVars, alive, dom, now>>

(***************************************************************************)
(* snapshot.ts: get_page_snapshot.                                         *)
(***************************************************************************)
NoLimit == 0    \* maxElements left out
MaxElementsChoices == 0..MaxShown

Min(a, b) == IF a < b THEN a ELSE b

limitedElementsOf(elements, maxElements) ==
    IF maxElements = NoLimit THEN elements
    ELSE SubSeq(elements, 1, Min(maxElements, Len(elements)))

\* a handler that refills the map without clearing it first
snapshotElementMapKeepOld(oldMap, snapMap, limitedElements, maxElements) ==
    LET limitedUids == {limitedElements[k].uid : k \in 1..Len(limitedElements)}
        added == IF maxElements = NoLimit THEN DOMAIN snapMap
                 ELSE (DOMAIN snapMap) \cap limitedUids
    IN [u \in (DOMAIN oldMap) \cup added |->
           IF u \in added THEN snapMap[u] ELSE oldMap[u]]

\* context.elementMap after the handler: cleared, then refilled from the
\* snapshot's map (only the uids of the limited elements under maxElements)
snapshotElementMap(oldMap, snapMap, limitedElements, maxElements) ==
    IF maxElements = NoLimit THEN snapMap
    ELSE LET limitedUids == {limitedElements[k].uid : k \in 1..Len(limitedElements)}
         IN [u \in (DOMAIN snapMap) \cap limitedUids |-> snapMap[u]]

GetPageSnapshot(maxElements, wc, hc, failed) ==
    IF currentPage = NULL
    THEN /\ result' = [op |-> "get_page_snapshot", ok |-> FALSE]
         /\ UNCHANGED <<miniProgram, uidVars, consoleVars, envVars>>
    ELSE \E snap \in {getPageSnapshot(dom[currentPage], currentPage,
                                       wc /\ alive, hc /\ alive, failed)} :
         LET tree == dom[currentPage]
             kept == IF alive THEN snap
                     ELSE [elements |-> <<>>, elementMap |-> EmptyMap,
                           childElements |-> <<>>]
             limitedElements == limitedElementsOf(kept.elements, maxElements)
         IN /\ elementMap' = snapshotElementMap(elementMap, kept.elementMap,
                                                limitedElements, maxElements)
            /\ result' = [op |-> "get_page_snapshot", ok |-> TRUE,
                          page |-> currentPage, tree |-> tree,
                          elements |-> limitedElements,
                          childElements |-> kept.childElements,
                          previous |-> DOMAIN elementMap]
            /\ UNCHANGED <<miniProgram, currentPage, consoleVars, envVars>>

(***************************************************************************)
(* page.ts: the $ tool; input.ts: click.                                   *)
(***************************************************************************)
QuerySelectors == { <<"view">>, <<".", "item">> }

QuerySelector(selector, failed) ==
    IF currentPage = NULL \/ ~alive
    THEN /\ result' = [op |-> "$", ok |-> FALSE]
         /\ UNCHANGED <<miniProgram, uidVars, consoleVars, envVars>>
    ELSE LET out == queryElements(dom[currentPage], currentPage, elementMap,
                                  selector, failed)
         IN /\ elementMap' = out.elementMap
            /\ result' = [op |-> "$", ok |-> TRUE, page |-> currentPage,
                          tree |-> dom[currentPage], selector |-> selector,
                          results |-> out.results,
                          previous |-> DOMAIN elementMap]
            /\ UNCHANGED <<miniProgram, currentPage, consoleVars, envVars>>

\* uids a caller may hold from earlier responses
UidPool ==
    { <<"view", ".", "item">>, <<"view", ".", "item", "[", "2", "]">>,
      <<"view", ":nth-child(", "3", ")">>, <<"button", "#", "submit">> }

Click(uid) ==
    /\ result' = [op |-> "click", uid |-> uid,
                  outcome |-> getElementByUid(currentPage, elementMap, dom,
                                              alive, uid)]
    /\ UNCHANGED <<miniProgram, uidVars, consoleVars, envVars>>

(***************************************************************************)
(* console.ts: start / stop / clear / get.                                 *)
(***************************************************************************)
StartConsoleMonitoring(clearExisting) ==
    IF miniProgram = NULL
    THEN /\ result' = [op |-> "start_console_monitoring", ok |-> FALSE]
         /\ UNCHANGED <<miniProgram, uidVars, consoleVars, envVars>>
    ELSE /\ Len(listeners) < MaxListeners
         /\ consoleStorage' =
              [(IF clearExisting THEN clearExistingLogs(consoleStorage)
                ELSE consoleStorage) EXCEPT !.isMonitoring = TRUE]
         /\ idGenerator' = IF idGenerator.present THEN idGenerator
                           ELSE createIdGenerator
         /\ listeners' = Append(listeners, "start")
         /\ result' = [op |-> "start_console_monitoring", ok |-> TRUE]
         /\ UNCHANGED <<miniProgram, uidVars, refs, envVars>>

StopConsoleMonitoring ==
    IF miniProgram = NULL
    THEN /\ result' = [op |-> "stop_console_monitoring", ok |-> FALSE]
         /\ UNCHANGED <<miniProgram, uidVars, consoleVars, envVars>>
    ELSE /\ listeners' = <<>>
         /\ consoleStorage' = [consoleStorage EXCEPT !.isMonitoring = FALSE]
         /\ result' = [op |-> "stop_console_monitoring", ok |-> TRUE]
         /\ UNCHANGED <<miniProgram, uidVars, idGenerator, refs, envVars>>

ClearScopes == {"all", "console", "exception"}

ClearConsole(type) ==
    /\ consoleStorage' = clearConsole(consoleStorage, type)
    /\ result' = [op |-> "clear_console", ok |-> TRUE, type |-> type]
    /\ UNCHANGED <<miniProgram, uidVars, idGenerator, listeners, refs, envVars>>

GetConsoleMessage(msgid) ==
    LET st == initializeConsoleStorage(
                  [storage |-> consoleStorage, gen |-> idGenerator])
    IN /\ consoleStorage' = st.storage
       /\ idGenerator' = st.gen
       /\ result' = [op |-> "get_console_message", msgid |-> msgid,
                     outcome |-> getConsoleMessage(st.storage, msgid)]
       /\ UNCHANGED <<miniProgram, uidVars, listeners, refs, envVars>>

\* the arguments of list_console_messages tried
MaxPageSize == 3       \* largest pageSize
MaxPageIdx == 1        \* largest pageIdx
NoFilter == [given |-> FALSE, types |-> {}]
TypeFilters ==
    { NoFilter,
      [given |-> TRUE, types |-> {}],
      [given |-> TRUE, types |-> {"error"}],
      [given |-> TRUE, types |-> {"error", "exception"}] }

\* the types the schema of list_console_messages accepts in its filter
FILTERABLE_MESSAGE_TYPES ==
    { "log", "debug", "info", "error", "warn", "dir", "dirxml", "table",
      "trace", "clear", "group", "groupCollapsed", "groupEnd", "assert",
      "count", "timeEnd", "verbose" }

\* the server validates the arguments against the schema before the handler
\* runs; the handler then initializes the store, lists and formats
ListConsoleMessages(pageSize, pageIdx, filter, includePreservedMessages) ==
    IF filter.given /\ ~(filter.types \subseteq FILTERABLE_MESSAGE_TYPES)
    THEN /\ result' = [op |-> "list_console_messages", ok |-> FALSE,
                       filter |-> filter]
         /\ UNCHANGED <<miniProgram, uidVars, consoleVars, envVars>>
    ELSE
    LET st == initializeConsoleStorage(
                  [storage |-> consoleStorage, gen |-> idGenerator])
        out == listConsoleMessages(st.storage, pageSize, pageIdx, filter,
                                   includePreservedMessages)
    IN /\ consoleStorage' = st.storage
       /\ idGenerator' = st.gen
       /\ result' = [op |-> "list_console_messages", ok |-> TRUE,
                     pageSize |-> pageSize,
                     pageIdx |-> pageIdx, filter |-> filter,
                     includePreservedMessages |-> includePreservedMessages,
                     pagedMessages |-> out.pagedMessages,
                     paginationInfo |-> out.paginationInfo]
       /\ UNCHANGED <<miniProgram, uidVars, listeners, refs, envVars>>

(***************************************************************************)
(* The environment: the mini program emits events, changes its page, the   *)
(* connection is lost, time passes.                                        *)
(***************************************************************************)
\* a console event (kind "console") or an exception event
EmitEvent(kind, type) ==
    /\ miniProgram # NULL /\ alive
    /\ listeners # <<>>
    /\ refs + Len(listeners) <= MaxRecords
    /\ LET st == emit(listeners, 1,
                      [storage |-> consoleStorage, gen |-> idGenerator,
                       refs |-> refs], kind, type, now)
       IN /\ consoleStorage' = st.storage
          /\ idGenerator' = st.gen
          /\ refs' = st.refs
    /\ UNCHANGED <<miniProgram, uidVars, listeners, envVars, result>>

EventKinds == {<<"console", t>> : t \in ConsoleTypes} \cup {<<"exception", "exception">>}

TreeChange(t) ==
    /\ alive
    /\ t # dom[appPage]
    /\ dom' = [dom EXCEPT ![appPage] = t]
    /\ UNCHANGED <<miniProgram, uidVars, consoleVars, alive, appPage, now,
                   navTimes, result>>

DevtoolsClosed ==
    /\ alive
    /\ alive' = FALSE
    /\ UNCHANGED <<miniProgram, uidVars, consoleVars, appPage, dom, now,
                   navTimes, result>>

\* the mini program moves to another page by itself (a redirect or a tap on
\* a link): context.currentPage keeps the page object it had
Redirect(url) ==
    /\ miniProgram # NULL /\ alive
    /\ url # appPage
    /\ appPage' = url
    /\ navTimes' = Remember(navTimes, now)
    /\ UNCHANGED <<miniProgram, uidVars, consoleVars, alive, dom, now, result>>

Tick ==
    /\ now < MaxTime
    /\ now' = now + 1
    /\ UNCHANGED <<miniProgram, uidVars, consoleVars, alive, appPage, dom,
                   navTimes, result>>

(***************************************************************************)
(* Specifications.                                                         *)
(***************************************************************************)
ConnectStep == \E tool \in ConnectTools, ok \in BOOLEAN : ConnectDevtools(tool, ok)
NavigateStep == \E url \in Pages : NavigateTo(url)
\* tool calls during which every attribute read succeeds
SnapshotStep ==
    \E maxElements \in MaxElementsChoices, wc \in BOOLEAN, hc \in BOOLEAN :
        GetPageSnapshot(maxElements, wc, hc, {})
\* get_page_snapshot without arguments
DefaultSnapshotStep == GetPageSnapshot(NoLimit, TRUE, TRUE, {})
RedirectStep == \E url \in Pages : Redirect(url)
QueryStep == \E selector \in QuerySelectors : QuerySelector(selector, {})
\* tool calls during which some attribute reads are rejected
FlakySnapshotStep ==
    \E maxElements \in MaxElementsChoices, wc \in BOOLEAN, hc \in BOOLEAN :
      \E failed \in FailChoices(IF currentPage = NULL THEN 0
                                ELSE Len(dom[currentPage])) \ {{}} :
        GetPageSnapshot(maxElements, wc, hc, failed)
\* get_page_snapshot without arguments, some reads rejected
DefaultFlakySnapshotStep ==
    \E failed \in FailChoices(IF currentPage = NULL THEN 0
                              ELSE Len(dom[currentPage])) \ {{}} :
        GetPageSnapshot(NoLimit, TRUE, TRUE, failed)
FlakyQueryStep ==
    \E selector \in QuerySelectors :
      \E failed \in FailChoices(IF currentPage = NULL THEN 0
                                ELSE Len(dom[currentPage])) \ {{}} :
        QuerySelector(selector, failed)
ClickStep == \E uid \in (DOMAIN elementMap) \cup UidPool : Click(uid)
TreeStep == \E t \in Trees : TreeChange(t)
StartStep == \E clearExisting \in BOOLEAN : StartConsoleMonitoring(clearExisting)
ClearStep == \E type \in ClearScopes : ClearConsole(type)
GetMessageStep == \E msgid \in 1..MAX_SAFE_INTEGER : GetConsoleMessage(msgid)
\* the list_console_messages requests tried: every page size and page index
\* without a filter and with the filter ['error'], and the default page with
\* every filter and both values of includePreservedMessages
DefaultPageSize == 50
ListRequests ==
    { [pageSize |-> p, pageIdx |-> k, filter |-> f,
       includePreservedMessages |-> FALSE] :
          p \in 1..MaxPageSize, k \in 0..MaxPageIdx,
          f \in {NoFilter, [given |-> TRUE, types |-> {"error"}]} }
    \cup
    { [pageSize |-> DefaultPageSize, pageIdx |-> 0, filter |-> f,
       includePreservedMessages |-> b] : f \in TypeFilters, b \in BOOLEAN }
ListStep ==
    \E r \in ListRequests :
        ListConsoleMessages(r.pageSize, r.pageIdx, r.filter,
                            r.includePreservedMessages)
\* list_console_messages called with includePreservedMessages only: the
\* other arguments take their defaults
DefaultListStep ==
    \E includePreservedMessages \in BOOLEAN :
        ListConsoleMessages(DefaultPageSize, 0, NoFilter,
                            includePreservedMessages)
EventStep == \E e \in EventKinds : EmitEvent(e[1], e[2])

\* the uid resolver and its environment
NextUid ==
    \/ ConnectStep
    \/ SnapshotStep
    \/ QueryStep
    \/ ClickStep
    \/ TreeStep
    \/ DevtoolsClosed

\* the console store and its environment
NextConsole ==
    \/ ConnectStep
    \/ StartStep
    \/ StopConsoleMonitoring
    \/ ClearStep
    \/ EventStep
    \/ DevtoolsClosed

\* the console store while the mini program navigates
NextNavigation ==
    \/ ConnectStep
    \/ GetCurrentPage
    \/ NavigateStep
    \/ StartStep
    \/ GetMessageStep
    \/ EventStep
    \/ Tick

\* the uid resolver while the mini program changes pages
NextPages ==
    \/ ConnectStep
    \/ GetCurrentPage
    \/ NavigateStep
    \/ RedirectStep
    \/ DefaultSnapshotStep
    \/ ClickStep
    \/ TreeStep

\* the snapshot and the $ tool while attribute reads fail
NextReads ==
    \/ ConnectStep
    \/ FlakySnapshotStep
    \/ FlakyQueryStep
    \/ ClickStep

\* snapshots and queries with rejected reads
NextFields ==
    \/ ConnectStep
    \/ DefaultFlakySnapshotStep
    \/ FlakyQueryStep
    \/ DevtoolsClosed

\* listing and reading the console store
NextList ==
    \/ ConnectStep
    \/ StartStep
    \/ EventStep
    \/ ListStep
    \/ GetMessageStep

\* listing records captured at different times
NextSort ==
    \/ ConnectStep
    \/ StartStep
    \/ EventStep
    \/ Tick
    \/ DefaultListStep

\* reading single messages from a store that is filled and cleared
NextGet ==
    \/ ConnectStep
    \/ StartStep
    \/ StopConsoleMonitoring
    \/ ClearStep
    \/ EventStep
    \/ DefaultListStep
    \/ GetMessageStep

Next ==
    \/ NextUid \/ NextConsole \/ NextNavigation \/ NextReads
    \/ NextList \/ NextGet \/ NextSort \/ NextFields \/ NextPages

Spec == Init /\ [][Next]_vars
SpecUid == Init /\ [][NextUid]_vars
SpecConsole == Init /\ [][NextConsole]_vars
SpecNavigation == Init /\ [][NextNavigation]_vars
SpecReads == Init /\ [][NextReads]_vars
SpecList == Init /\ [][NextList]_vars
SpecGet == Init /\ [][NextGet]_vars
SpecSort == Init /\ [][NextSort]_vars
SpecFields == Init /\ [][NextFields]_vars
SpecPages == Init /\ [][NextPages]_vars

(***************************************************************************)
(* Properties of the uid resolver.                                         *)
(***************************************************************************)
Resolve(uid) == getElementByUid(currentPage, elementMap, dom, alive, uid)

\* the latest tool call was a get_page_snapshot that returned a snapshot
SnapshotTaken == result.op = "get_page_snapshot" /\ result.ok
SnapshotUids == {result.elements[k].uid : k \in 1..Len(result.elements)}
\* ... and the page still shows the tree the snapshot saw
TreeUnchanged ==
    /\ SnapshotTaken
    /\ alive
    /\ currentPage = result.page
    /\ dom[currentPage] = result.tree

\* C1: after get_page_snapshot the selector map holds only uids of that
\* snapshot, and resolving a uid recorded earlier (by a snapshot or a
\* selector query) that the new snapshot does not assign fails with the
\* unknown-uid error.
C1_SnapshotReplacesMap ==
    SnapshotTaken =>
        /\ DOMAIN elementMap \subseteq SnapshotUids
        /\ \A uid \in (result.previous \cup UidPool) \ SnapshotUids :
              Resolve(uid).kind = "UnknownUid"

\* a snapshot has dropped a uid that a selector query had recorded
C1_Witness ==
    /\ SnapshotTaken
    /\ <<"view", ".", "item", "[", "2", "]">> \in result.previous
    /\ elementMap # EmptyMap
    /\ Resolve(<<"view", ".", "item", "[", "2", "]">>).kind = "UnknownUid"

\* C2: with the tree unchanged since the latest snapshot, every uid that
\* the snapshot gave to one element resolves to that very element, never
\* to a different one.
C2_ResolvesSameElement ==
    TreeUnchanged =>
        \A k \in 1..Len(result.elements) :
            (\A j \in 1..Len(result.elements) :
                result.elements[j].uid = result.elements[k].uid => j = k)
            => Resolve(result.elements[k].uid)
                 = [kind |-> "Element", element |-> result.elements[k].element]

\* C3: right after a snapshot, with the tree unchanged and the connection
\* answering, every key of the selector map resolves to an element.
C3_EveryKeyResolves ==
    TreeUnchanged =>
        \A uid \in DOMAIN elementMap : Resolve(uid).kind = "Element"

\* a snapshot of two elements sharing one base selector has just been taken
C3_Witness ==
    /\ TreeUnchanged
    /\ result.tree = <<"itemA", "itemB">>
    /\ Len(result.elements) = 2
    /\ elementMap # EmptyMap

\* positions of the page's elements that the selector matches
MatchingPositions(tree, sel) == {k \in 1..Len(tree) : Matches(tree[k], sel)}

\* the outcome the order of precedence prescribes for resolving uid
ExpectedOutcome(uid) ==
    IF currentPage = NULL THEN Failure("NotConnected")
    ELSE IF uid \notin DOMAIN elementMap THEN Failure("UnknownUid")
    ELSE IF ~alive THEN Failure("SdkError")
    ELSE LET tree == dom[currentPage]
             hits == MatchingPositions(tree, elementMap[uid].selector)
             index == elementMap[uid].index
         IN IF hits = {} THEN Failure("StaleSelector")
            ELSE IF index >= Cardinality(hits) THEN Failure("IndexOutOfRange")
            ELSE LET pos == CHOOSE k \in hits :
                               Cardinality({j \in hits : j < k}) = index
                 IN [kind |-> "Element",
                     element |-> [page |-> currentPage, node |-> tree[pos]]]

\* C4: resolving a uid has exactly one outcome, by precedence: not connected
\* without a current page; else unknown uid when the map lacks it; else
\* stale selector when the stored selector matches nothing; else index out
\* of range when the stored index is at or past the number of matches; else
\* the match at the stored index (a query the connection does not answer
\* surfaces as the SDK's own error).
C4_ResolutionPrecedence ==
    [][ (result'.op = "click" /\ result' # result) =>
            result'.outcome = ExpectedOutcome(result'.uid) ]_vars

\* a click met a stored index past the matches of a selector that still
\* matches something
C4_Witness ==
    /\ result.op = "click"
    /\ result.outcome.kind = "IndexOutOfRange"
    /\ currentPage # NULL
    /\ MatchingPositions(dom[currentPage], elementMap[result.uid].selector) # {}

\* C5: no two element descriptors of one snapshot carry the same uid.
C5_SnapshotUidsUnique ==
    SnapshotTaken =>
        \A j, k \in 1..Len(result.elements) :
            j # k => result.elements[j].uid # result.elements[k].uid

(***************************************************************************)
(* Properties of the console store.                                        *)
(***************************************************************************)
\* every place of a session list: <<session, list, position>>
Slots(storage) ==
    UNION { {<<n, "messages", k>> :
                k \in 1..Len(storage.navigations[n].messages)}
            \cup {<<n, "exceptions", k>> :
                k \in 1..Len(storage.navigations[n].exceptions)} :
            n \in 1..Len(storage.navigations) }

RecordAt(storage, slot) ==
    IF slot[2] = "messages"
    THEN storage.navigations[slot[1]].messages[slot[3]]
    ELSE storage.navigations[slot[1]].exceptions[slot[3]]

StoredRecords(storage) == {RecordAt(storage, s) : s \in Slots(storage)}

\* C6: every entry of the msgid map refers to a record object that is
\* present in exactly one place of one navigation session's message or
\* exception list (no dangling map entry), whatever starts, stops, events
\* and clears came before.
C6_NoDanglingMapEntry ==
    \A id \in DOMAIN consoleStorage.messageIdMap :
        Cardinality({s \in Slots(consoleStorage) :
            RecordAt(consoleStorage, s).ref
                = consoleStorage.messageIdMap[id].ref}) = 1

\* a clear of one kind has run and left records of the other kind indexed
C6_Witness ==
    /\ result.op = "clear_console"
    /\ DOMAIN consoleStorage.messageIdMap # {}
    /\ refs >= 2
    /\ consoleStorage.navigations[1].messages = <<>>

\* C7: every record held by a session list has a msgid and is the record
\* the msgid map holds under that msgid.
C7_EveryRecordIndexed ==
    \A r \in StoredRecords(consoleStorage) :
        /\ r.hasId
        /\ MapHas(consoleStorage.messageIdMap, r.msgid)
        /\ consoleStorage.messageIdMap[r.msgid].ref = r.ref

\* the records captured by the step: those allocated after the old refs
CapturedNow == {r \in StoredRecords(consoleStorage)' : r.ref > refs /\ r.hasId}

\* C8: until the generator wraps at MAX_SAFE_INTEGER, the msgids of the
\* records form one strictly increasing sequence in capture order, console
\* and exception events together: a step never moves the generator back,
\* every record it captures gets a msgid at or above every msgid handed out
\* before and below the generator's next value, records captured in the
\* same step are numbered in capture order, and the records in the store
\* carry distinct msgids ordered as they were captured.
C8_MsgidsStrictlyIncreasing ==
    [][ (idGenerator.i + (refs' - refs) <= MAX_SAFE_INTEGER) =>
          /\ idGenerator'.i >= idGenerator.i
          /\ idGenerator.present => idGenerator'.present
          /\ \A r \in CapturedNow :
                /\ idGenerator.present
                /\ r.msgid >= idGenerator.i
                /\ r.msgid < idGenerator'.i
          /\ \A r1, r2 \in StoredRecords(consoleStorage)' :
                (r1.hasId /\ r2.hasId /\ r1.ref < r2.ref
                   /\ refs' < MAX_SAFE_INTEGER)
                => r1.msgid < r2.msgid ]_vars

\* after monitoring was stopped and started again, a console record and an
\* exception record sit in the store with msgids 1 and 2
C8_Witness ==
    /\ \E r1 \in Range(consoleStorage.navigations[1].messages),
          r2 \in Range(consoleStorage.navigations[1].exceptions) :
          r1.hasId /\ r2.hasId /\ r1.msgid = 1 /\ r2.msgid = 2
    /\ listeners = <<"start">>
    /\ refs = 2

\* C10: the number of retained navigation sessions never exceeds
\* maxNavigations.
C10_SessionsBounded ==
    Len(consoleStorage.navigations) <= maxNavigations

\* monitoring was restarted with clearExisting after events were captured
C10_Witness ==
    /\ result.op = "start_console_monitoring"
    /\ result.ok
    /\ refs >= 1
    /\ consoleStorage.navigations = <<FreshSession>>
\* the records of the sessions a rollover on every navigation would have
\* dropped: those captured before the maxNavigations-th latest navigation
EvictedRecords ==
    IF Len(navTimes) < maxNavigations THEN {}
    ELSE {r \in StoredRecords(consoleStorage) :
            /\ r.hasId
            /\ r.timestamp < navTimes[Len(navTimes) - maxNavigations + 1]}

\* C9: once more than maxNavigations sessions have been started, a msgid
\* that belonged only to the oldest session is gone from the msgid map and
\* get_console_message on it fails with message-not-found.
C9_EvictedMessageNotFound ==
    \A r \in EvictedRecords :
        (\A q \in StoredRecords(consoleStorage) :
            (q.hasId /\ q.msgid = r.msgid) => q \in EvictedRecords)
        => /\ ~MapHas(consoleStorage.messageIdMap, r.msgid)
           /\ (result.op = "get_console_message" /\ result.msgid = r.msgid)
                => result.outcome.kind = "MessageNotFound"

(***************************************************************************)
(* Properties of get_console_message and list_console_messages.            *)
(***************************************************************************)
GetCall == result'.op = "get_console_message" /\ result' # result
\* a list_console_messages call whose arguments the schema accepted
ListCall ==
    /\ result'.op = "list_console_messages" /\ result'.ok
    /\ result' # result
ListResult == result.op = "list_console_messages" /\ result.ok

\* C11: get_console_message for a msgid that is absent from the ID map fails
\* with the not-found error, which names the msgid and points to
\* list_console_messages, and which is not the storage-not-initialized error.
C11_AbsentMsgidNotFound ==
    [][ (GetCall /\ ~MapHas(consoleStorage.messageIdMap, result'.msgid)) =>
          /\ result'.outcome.kind = "MessageNotFound"
          /\ result'.outcome.error = MessageNotFoundError(result'.msgid)
          /\ \E k \in 1..Len(result'.outcome.error) :
                 result'.outcome.error[k] = ToString(result'.msgid)
          /\ \E k \in 1..Len(result'.outcome.error) :
                 result'.outcome.error[k] = "list_console_messages"
          /\ result'.outcome.error # StorageNotInitializedError ]_vars

\* a msgid that was assigned and has been cleared is asked for
C11_Witness ==
    /\ result.op = "get_console_message"
    /\ result.outcome.kind = "MessageNotFound"
    /\ idGenerator.present /\ idGenerator.i > result.msgid
    /\ refs < MAX_SAFE_INTEGER
    /\ ~MapHas(consoleStorage.messageIdMap, result.msgid)
\* the generator has handed out fewer than MAX_SAFE_INTEGER msgids: it has
\* not wrapped, so no msgid has been given to two records
NoWrapYet(gen, captured) ==
    ~gen.present \/ captured + 1 < gen.i + MAX_SAFE_INTEGER

\* C12: get_console_message reflects the store at the time of the call.
\* Every record that list_console_messages shows is retrievable under its
\* msgid as that same record object; an event capture in between leaves
\* every indexed record retrievable under its msgid as the same object
\* (only clear_console and start_console_monitoring with clearExisting take
\* records away); and a get for a msgid that a stored record carries returns
\* that record.  Stated for a generator that has not wrapped.
C12_GetReflectsStore ==
    [][ /\ (ListCall /\ NoWrapYet(idGenerator, refs)) =>
              \A k \in 1..Len(result'.pagedMessages) :
                 LET m == result'.pagedMessages[k]
                     got == getConsoleMessage(consoleStorage', m.msgid)
                 IN got.kind = "Found" /\ got.ref = m.ref
        /\ (refs' > refs /\ NoWrapYet(idGenerator', refs')) =>
              \A r \in StoredRecords(consoleStorage) :
                 (r.hasId /\ getConsoleMessage(consoleStorage, r.msgid).ref = r.ref)
                 => /\ r \in StoredRecords(consoleStorage')
                    /\ getConsoleMessage(consoleStorage', r.msgid).kind = "Found"
                    /\ getConsoleMessage(consoleStorage', r.msgid).ref = r.ref
        /\ (GetCall /\ NoWrapYet(idGenerator, refs)) =>
              \A r \in StoredRecords(consoleStorage') :
                 (r.hasId /\ r.msgid = result'.msgid)
                 => /\ result'.outcome.kind = "Found"
                    /\ result'.outcome.ref = r.ref ]_vars

\* msgid 1 is read back as the first record after a second record was
\* captured and indexed
C12_Witness ==
    /\ result.op = "get_console_message"
    /\ result.msgid = 1
    /\ result.outcome.kind = "Found"
    /\ NoWrapYet(idGenerator, refs)
    /\ \E r1, r2 \in StoredRecords(consoleStorage) :
          /\ r1.hasId /\ r1.msgid = 1 /\ r1.ref = result.outcome.ref
          /\ r2.hasId /\ r2.msgid = 2 /\ r2.ref > r1.ref
    /\ listeners = <<"start">>
\* C13: list_console_messages and get_console_message never mutate state:
\* after either call, accepted or rejected, found or not found, the sessions
\* with their records, the ID map, the monitoring flag and the ID generator
\* are what they were before the call.  (A step that leaves one of these
\* tools' results in place and captures nothing is such a call or a tick.)
C13_ReadsDoNotMutate ==
    [][ (result'.op \in {"list_console_messages", "get_console_message"}
           /\ refs' = refs /\ now' = now)
        => /\ consoleStorage' = consoleStorage
           /\ idGenerator' = idGenerator
           /\ listeners' = listeners ]_vars

\* a get that failed against a store that holds indexed records and is
\* monitoring
C13_Witness ==
    /\ result.op = "get_console_message"
    /\ result.outcome.kind = "MessageNotFound"
    /\ consoleStorage.isMonitoring
    /\ idGenerator.present /\ idGenerator.i > 1
    /\ DOMAIN consoleStorage.messageIdMap # {}
\* the filtered, sorted records a list call pages through
ListedNow ==
    listedMessages(consoleStorage', result'.filter,
                   result'.includePreservedMessages)

\* pages k, k + 1, ..., last of the store, one after the other
RECURSIVE PagesFrom(_, _, _, _, _, _)
PagesFrom(storage, pageSize, k, last, filter, includePreservedMessages) ==
    IF k > last THEN <<>>
    ELSE listConsoleMessages(storage, pageSize, k, filter,
                             includePreservedMessages).pagedMessages
         \o PagesFrom(storage, pageSize, k + 1, last, filter,
                      includePreservedMessages)

\* C14: for page size p and page index k, list_console_messages returns
\* exactly the records at the 0-based positions k*p up to (not including)
\* min((k+1)*p, total) of the filtered, sorted sequence; with the store
\* unchanged, pages 0, 1, 2, ... one after the other are that whole sequence
\* (every record once, in order); a page that starts at or beyond total
\* returns no record.
C14_PageIsSlice ==
    [][ ListCall =>
          \A all \in {ListedNow} :
          LET total == Len(all)
              p == result'.pageSize
              k == result'.pageIdx
              lo == k * p
              hi == IF (k + 1) * p < total THEN (k + 1) * p ELSE total
              page == result'.pagedMessages
          IN /\ Len(page) = (IF hi > lo THEN hi - lo ELSE 0)
             /\ \A i \in 1..Len(page) : page[i] = all[lo + i]
             /\ (k = 0) =>
                   PagesFrom(consoleStorage', p, 0, total \div p, result'.filter,
                             result'.includePreservedMessages) = all
             /\ (lo >= total) => page = <<>> ]_vars

\* the second page of four records listed three to a page: one record
C14_Witness ==
    /\ ListResult
    /\ result.pageSize = 3 /\ result.pageIdx = 1
    /\ result.paginationInfo.total = 4
    /\ Len(result.pagedMessages) = 1
\* C15: list_console_messages reports a next page, and then pageIdx + 1,
\* exactly when records remain beyond the current page, and a previous page,
\* and then pageIdx - 1, exactly when pageIdx > 0; on the last page (and
\* beyond it) no next page is reported.
C15_AdjacentPages ==
    [][ ListCall =>
          LET total == Len(ListedNow)
              p == result'.pageSize
              k == result'.pageIdx
              info == result'.paginationInfo
          IN /\ (info.nextPage # <<>>) <=> ((k + 1) * p < total)
             /\ (info.nextPage # <<>>) => info.nextPage = <<k + 1>>
             /\ (info.previousPage # <<>>) <=> (k > 0)
             /\ (info.previousPage # <<>>) => info.previousPage = <<k - 1>> ]_vars

\* the second of four one-record pages: next page 2, previous page 0
C15_Witness ==
    /\ ListResult
    /\ result.pageSize = 1 /\ result.pageIdx = 1
    /\ result.paginationInfo.total = 4
    /\ result.paginationInfo.nextPage = <<2>>
    /\ result.paginationInfo.previousPage = <<0>>

\* C16: for every page request, the empty store and a page index beyond the
\* last page included, the reported total is the number of filtered records
\* and the reported range lo-hi is the 1-based inclusive range of the
\* records returned: hi - lo + 1 is the number of records returned
\* (written hi + 1 = lo + that number).
C16_TotalAndRange ==
    [][ ListCall =>
          LET info == result'.paginationInfo
          IN /\ info.total = Len(ListedNow)
             /\ info.showing[2] + 1
                   = info.showing[1] + Len(result'.pagedMessages) ]_vars
\* the records of the sessions a list call covers, and the type a record
\* is listed under
InScopeRecords(storage, includePreservedMessages) ==
    LET navs == navigationsToInclude(storage, includePreservedMessages)
    IN UNION { Range(navs[n].messages) \cup Range(navs[n].exceptions) :
               n \in 1..Len(navs) }
ListedTypeOf(r) == IF r.kind = "exception" THEN "exception" ELSE r.type

\* C17: when a type filter is given, list_console_messages returns exactly
\* the in-scope records whose type is in the filter set, exception records
\* counting as type "exception", and no record of any other type.  (Stated
\* for the calls with the default page size, whose single page holds the
\* whole list.)
C17_TypeFilterExact ==
    [][ (ListCall /\ result'.filter.given
           /\ result'.pageSize = DefaultPageSize) =>
          {result'.pagedMessages[k].ref : k \in 1..Len(result'.pagedMessages)}
            = {r.ref : r \in
                 {x \in InScopeRecords(consoleStorage',
                                       result'.includePreservedMessages) :
                     ListedTypeOf(x) \in result'.filter.types}} ]_vars
NewestFirst(seq) ==
    \A i, j \in 1..Len(seq) : i < j => seq[i].timestamp >= seq[j].timestamp

\* C18: list_console_messages orders the records newest-first by timestamp,
\* messages and exceptions together: no record is listed before a record
\* with a later timestamp, within the page returned and from page to page
\* (the one-record pages 0, 1, ... of the same store, one after the other).
C18_NewestFirst ==
    [][ ListCall =>
          /\ NewestFirst(result'.pagedMessages)
          /\ NewestFirst(ListedNow)
          /\ NewestFirst(PagesFrom(consoleStorage', 1, 0, MaxPageIdx + 1,
                                   result'.filter,
                                   result'.includePreservedMessages)) ]_vars

\* an exception captured later is listed before a console message captured
\* earlier, although the handler collects messages before exceptions
C18_Witness ==
    /\ ListResult
    /\ Len(result.pagedMessages) >= 2
    /\ result.pagedMessages[1].type = "exception"
    /\ result.pagedMessages[1].timestamp = 1
    /\ \E k \in 2..Len(result.pagedMessages) :
          /\ result.pagedMessages[k].type # "exception"
          /\ result.pagedMessages[k].timestamp = 0
          /\ result.pagedMessages[k].ref < result.pagedMessages[1].ref
\* C19: every msgid is a positive integer; when the counter reaches
\* MAX_SAFE_INTEGER it wraps and resumes at 1, so no record is ever given
\* msgid 0 and the msgid map never has the key 0.
C19_MsgidsPositive ==
    /\ \A r \in StoredRecords(consoleStorage) : r.hasId => r.msgid >= 1
    /\ \A id \in DOMAIN consoleStorage.messageIdMap : id >= 1
(***************************************************************************)
(* Properties of the selector map written by a snapshot.                   *)
(***************************************************************************)
\* the base selector of the k-th element the snapshot returned
BaseSelectorAt(k) ==
    LET el == result.elements[k]
    IN baseSelectorOf(el.tagName, Elem[el.element.node].id,
                      Elem[el.element.node].class)

\* C20: after a snapshot the selector map holds, for each captured element,
\* an entry under the element's uid whose selector is the element's base
\* selector (tag+id, else tag+first class, else the bare tag name) and whose
\* index is the element's own occurrence count for that base selector: the
\* number of captured elements before it with the same base selector.
C20_MapEntryPerElement ==
    SnapshotTaken =>
        \A k \in 1..Len(result.elements) :
            LET uid == result.elements[k].uid
            IN /\ MapHas(elementMap, uid)
               /\ elementMap[uid].selector = BaseSelectorAt(k)
               /\ elementMap[uid].index =
                     Cardinality({j \in 1..(k - 1) :
                                     BaseSelectorAt(j) = BaseSelectorAt(k)})
(***************************************************************************)
(* Properties of the uids a selector query assigns.                        *)
(***************************************************************************)
QueryDone == result.op = "$" /\ result.ok

\* the base uid of the k-th element of the query result
BaseUidAt(k) ==
    LET el == result.results[k].element
    IN generateElementUid(Elem[el.node].tagName, Elem[el.node].id,
                          Elem[el.node].class, k - 1)

\* how many earlier elements of the same result have the base uid of the k-th
EarlierSameBase(k) ==
    Cardinality({j \in 1..(k - 1) : BaseUidAt(j) = BaseUidAt(k)})

\* C21: in the result of one selector query, of the elements that yield the
\* same base uid the first keeps the bare uid and the 2nd, 3rd, ... get the
\* suffixes [2], [3], ...; the count starts anew in every call, whatever
\* queries and snapshots came before, so a repeated query on an unchanged
\* tree assigns the same uids again.
C21_QuerySuffixes ==
    QueryDone =>
        /\ \A k \in 1..Len(result.results) :
              result.results[k].uid =
                 IF EarlierSameBase(k) = 0 THEN BaseUidAt(k)
                 ELSE BaseUidAt(k)
                        \o <<"[", ToString(EarlierSameBase(k) + 1), "]">>
        /\ result.results =
              queryElements(result.tree, result.page, elementMap,
                            result.selector, {}).results

\* a query returned two elements of class item: view.item and view.item[2],
\* and the map already held view.item[2] before the call
C21_Witness ==
    /\ QueryDone
    /\ Len(result.results) >= 2
    /\ result.results[1].uid = <<"view", ".", "item">>
    /\ result.results[2].uid = <<"view", ".", "item", "[", "2", "]">>
    /\ <<"view", ".", "item", "[", "2", "]">> \in result.previous
\* C22: the uid of every element captured in a snapshot is tagName#id when
\* its id attribute is non-empty, wherever the element stands; else
\* tagName.firstClass when its class attribute is non-empty; else
\* tagName:nth-child(k), k being the element's 1-based position in the
\* result list.
C22_SnapshotUidFormat ==
    SnapshotTaken =>
        \A k \in 1..Len(result.elements) :
            LET el == result.elements[k]
                a == Elem[el.element.node]
            IN el.uid =
                 IF a.id # "" THEN <<a.tagName, "#", a.id>>
                 ELSE IF a.class # <<>> THEN <<a.tagName, ".", a.class[1]>>
                 ELSE <<a.tagName, ":nth-child(", ToString(k), ")">>

\* a snapshot of an element with an id, one with a class and one with
\* neither, in that order
C22_Witness ==
    /\ SnapshotTaken
    /\ Len(result.elements) = 3
    /\ result.elements[1].uid = <<"button", "#", "submit">>
    /\ result.elements[2].uid = <<"button", ".", "cancel">>
    /\ result.elements[3].uid = <<"view", ":nth-child(", "3", ")">>
(***************************************************************************)
(* Properties of snapshots and queries under rejected reads.               *)
(***************************************************************************)
ElementsOf(descriptors) ==
    [k \in 1..Len(descriptors) |-> descriptors[k].element]

NavigationDone ==
    /\ result'.op = "navigate_to" /\ result'.ok
    /\ navTimes' # navTimes

\* C24: each page navigation starts a new, empty navigation session at index
\* 0 and moves the earlier sessions, with their records, one place back, so
\* that events captured afterwards are stored in the new session.
C24_NavigationStartsSession ==
    [][ (NavigationDone /\ Len(consoleStorage.navigations) >= 1) =>
          LET old == consoleStorage.navigations
              new == consoleStorage'.navigations
          IN /\ Len(new) >= 1
             /\ new[1].messages = <<>>
             /\ new[1].exceptions = <<>>
             /\ \A k \in 2..Len(new) : new[k] = old[k - 1]
             /\ Len(new) >= (IF Len(old) < maxNavigations
                             THEN Len(old) + 1 ELSE maxNavigations) ]_vars

\* a connect call that established a new connection
NewConnection ==
    /\ miniProgram = NULL \/ ~alive
    /\ result'.op \in ConnectTools /\ result'.outcome = "connected"
    /\ alive'

\* C25: whenever connect_devtools (either variant) establishes a new
\* connection, the selector map is empty afterwards.
C25_ConnectClearsMap ==
    [][ NewConnection => elementMap' = EmptyMap ]_vars

\* a connection is up, the map is empty and the tree of the home page is no
\* longer the initial one, which takes an earlier step under a connection
C25_Witness ==
    /\ result.op \in ConnectTools /\ result.outcome = "connected"
    /\ miniProgram # NULL /\ alive
    /\ elementMap = EmptyMap
    /\ currentPage = HomePage
    /\ dom[HomePage] = <<"itemA", "itemB">>

\* the mini program emitted a console or exception event
EventEmitted == refs' # refs

\* C26: while monitoring is running, each console or exception event puts
\* exactly one record into the store, whatever connect, start and stop calls
\* came before.
C26_OneRecordPerEvent ==
    [][ (EventEmitted /\ consoleStorage.isMonitoring) =>
          /\ refs' = refs + 1
          /\ Cardinality(Slots(consoleStorage')) =
                Cardinality(Slots(consoleStorage)) + 1 ]_vars

\* the tool call of this step changed context.currentPage to another page
PageChanged ==
    /\ currentPage # NULL /\ currentPage' # NULL
    /\ currentPage' # currentPage

\* C27: a uid recorded on one page never resolves to an element of a
\* different page once the current page has changed: a uid of the snapshot
\* just taken on the page that is left does not resolve to an element of the
\* page that is entered.
C27_NoCrossPageResolution ==
    [][ (SnapshotTaken /\ result.page = currentPage /\ PageChanged) =>
          \A uid \in SnapshotUids :
            LET r == getElementByUid(currentPage', elementMap', dom', alive',
                                     uid)
            IN  r.kind = "Element" => r.element.page = result.page ]_vars

\* a $ call answered while the tree and the connection stayed as they were
QueryOnUnchangedTree ==
    /\ result'.op = "$" /\ result'.ok
    /\ alive /\ alive'
    /\ dom' = dom
    /\ currentPage' = currentPage

\* C28: a selector query never changes the target of a uid that is already
\* in the map: on an unchanged tree every uid that resolved to an element
\* before the query resolves to that same element after it.
C28_QueryKeepsTargets ==
    [][ QueryOnUnchangedTree =>
          \A uid \in DOMAIN elementMap :
            Resolve(uid).kind = "Element" =>
              getElementByUid(currentPage', elementMap', dom', alive', uid)
                = Resolve(uid) ]_vars

\* a clear_console call (an event capture is the only other step that leaves
\* the result of a clear_console call in place)
ClearCall == result'.op = "clear_console" /\ refs' = refs
ListedRefs(storage) ==
    LET all == listedMessages(storage, NoFilter, TRUE)
    IN {all[k].ref : k \in 1..Len(all)}
Retrievable(storage, r) ==
    /\ r.hasId
    /\ getConsoleMessage(storage, r.msgid).kind = "Found"
    /\ getConsoleMessage(storage, r.msgid).ref = r.ref

\* C29: clear_console with type all, console or exception removes from the
\* current session exactly the records of the selected kind(s) and exactly
\* their msgids from the ID map: afterwards no cleared record is listed or
\* retrievable, and every record that was not selected is still listed and
\* still retrievable under its msgid.  Stated for a generator that has not
\* wrapped.
C29_ClearIsExact ==
    [][ (ClearCall /\ NoWrapYet(idGenerator, refs)) =>
          LET old == consoleStorage
              new == consoleStorage'
              type == result'.type
              messages == old.navigations[1].messages
              exceptions == old.navigations[1].exceptions
              cleared ==
                  (IF type \in {"all", "console"} THEN Range(messages) ELSE {})
                  \cup
                  (IF type \in {"all", "exception"} THEN Range(exceptions)
                   ELSE {})
              kept == StoredRecords(old) \ cleared
          IN /\ StoredRecords(new) = kept
             /\ new.navigations[1].messages =
                  (IF type \in {"all", "console"} THEN <<>> ELSE messages)
             /\ new.navigations[1].exceptions =
                  (IF type \in {"all", "exception"} THEN <<>> ELSE exceptions)
             /\ DOMAIN new.messageIdMap =
                  DOMAIN old.messageIdMap
                      \ {r.msgid : r \in {c \in cleared : c.hasId}}
             /\ \A r \in cleared :
                  /\ ~Retrievable(new, r)
                  /\ r.hasId => ~MapHas(new.messageIdMap, r.msgid)
                  /\ r.ref \notin ListedRefs(new)
             /\ \A r \in kept :
                  /\ Retrievable(old, r) => Retrievable(new, r)
                  /\ r.ref \in ListedRefs(old) => r.ref \in ListedRefs(new) ]_vars

\* clear_console with type console took the console records away and left an
\* indexed exception record in place
C29_Witness ==
    /\ result.op = "clear_console" /\ result.type = "console"
    /\ consoleStorage.navigations[1].messages = <<>>
    /\ refs > Len(consoleStorage.navigations[1].exceptions)
    /\ \E r \in Range(consoleStorage.navigations[1].exceptions) :
          /\ Retrievable(consoleStorage, r)
          /\ r.ref \in ListedRefs(consoleStorage)

\* C30: the monitoring flag is accurate: the store reports monitoring as
\* running (isMonitoring) exactly when a console / exception listener is
\* registered on the connection, so that an event is recorded if and only if
\* the flag is set, and monitoring is never reported as running while no
\* listener is registered.
C30_MonitoringFlagAccurate ==
    consoleStorage.isMonitoring <=> (miniProgram # NULL /\ listeners # <<>>)

====
